---- MODULE Spec2Model ----
(***************************************************************************)
(* otpl-service-check: the Go check (accumulator.go, check.go, main.go,    *)
(* discovery.go) and the legacy Python check (check_service.py).           *)
(***************************************************************************)
EXTENDS Integers, Sequences, FiniteSets, TLC

VARIABLES
    mu,             \* resultAccumulator.mu: 0 when free, else the holder's thread id
    worstStatus,    \* resultAccumulator.worstStatus
    results,        \* resultAccumulator.results (Go) / results list of Main.run (Python)
    threads,        \* per thread: position, the result it is adding, its loaded copy
    pc,             \* position of the main thread
    wg,             \* sync.WaitGroup counter of checkInstances
    cfg,            \* validated flags: service, skipHealthcheck, warn, crit
    discoveryState, \* check.discoveryState (Go) / raw discovery state (Python)
    matching,       \* announcements of the target service
    next,           \* index of the next announcement to dispatch
    check,          \* nagios.Check: Status and message list (Go); return code (Python)
    checks,         \* the responses imap_unordered yields, in completion order (Python)
    response_data_seen, \* Main.response_data_seen (Python)
    fetches,        \* the GET <discovery>/state requests made so far, each "ok" or "failed"
    signal          \* "none", or what the environment sent the process: "SIGTERM", "deadline"

pyVars == <<checks, response_data_seen>>

vars == <<mu, worstStatus, results, threads, pc, wg, cfg, discoveryState,
          matching, next, check, checks, response_data_seen, fetches, signal>>

(***************************************************************************)
(* Bounds                                                                  *)
(***************************************************************************)
MaxCallers == 3
MaxAnns == 2

(***************************************************************************)
(* nagios.Status and the accumulator's order                               *)
(***************************************************************************)
StatusOK == "OK"
StatusUnknown == "UNKNOWN"
StatusWarn == "WARN"
StatusCrit == "CRIT"

Statuses == {StatusOK, StatusUnknown, StatusWarn, StatusCrit}

statusToOrd(s) ==
    CASE s = StatusOK -> 0
      [] s = StatusUnknown -> 1
      [] s = StatusWarn -> 2
      [] s = StatusCrit -> 3
      [] OTHER -> -1

worseOf_swapped(a, b) == IF statusToOrd(b) > statusToOrd(a) THEN a ELSE b

worseOf(a, b) == IF statusToOrd(b) > statusToOrd(a) THEN b ELSE a

newAccumulator == [worstStatus |-> StatusOK, results |-> <<>>]

idleThread == [pc |-> "idle", r |-> <<>>, tmp |-> <<>>]

(***************************************************************************)
(* resultAccumulator.add, as run by thread t.  The call is entered by      *)
(* setting the thread to "add_lock" with its argument in r.                *)
(***************************************************************************)
callAdd(t, r) == [pc |-> "add_lock", r |-> r, tmp |-> <<>>]

addLock_noExclusion(t) ==
    /\ threads[t].pc = "add_lock"
    /\ mu' = t
    /\ threads' = [threads EXCEPT ![t].pc = "add_load"]
    /\ UNCHANGED <<worstStatus, results, pc, wg, cfg, discoveryState, matching, next, check, pyVars, fetches, signal>>

\* a.mu.Lock()
addLock(t) ==
    /\ threads[t].pc = "add_lock"
    /\ mu = 0
    /\ mu' = t
    /\ threads' = [threads EXCEPT ![t].pc = "add_load"]
    /\ UNCHANGED <<worstStatus, results, pc, wg, cfg, discoveryState, matching, next, check, pyVars, fetches, signal>>

\* the reads of a.worstStatus and a.results
addLoad(t) ==
    /\ threads[t].pc = "add_load"
    /\ threads' = [threads EXCEPT ![t].pc = "add_store",
                                  ![t].tmp = [worstStatus |-> worstStatus,
                                              results |-> results]]
    /\ UNCHANGED <<mu, worstStatus, results, pc, wg, cfg, discoveryState, matching, next, check, pyVars, fetches, signal>>

addStore_prepend(t) ==
    /\ threads[t].pc = "add_store"
    /\ worstStatus' = worseOf(threads[t].tmp.worstStatus, threads[t].r.status)
    /\ results' = <<threads[t].r>> \o threads[t].tmp.results
    /\ threads' = [threads EXCEPT ![t].pc = "add_unlock", ![t].tmp = <<>>]
    /\ UNCHANGED <<mu, pc, wg, cfg, discoveryState, matching, next, check, pyVars, fetches, signal>>

\* a.worstStatus = worseOf(..); a.results = append(..)
addStore(t) ==
    /\ threads[t].pc = "add_store"
    /\ worstStatus' = worseOf(threads[t].tmp.worstStatus, threads[t].r.status)
    /\ results' = Append(threads[t].tmp.results, threads[t].r)
    /\ threads' = [threads EXCEPT ![t].pc = "add_unlock", ![t].tmp = <<>>]
    /\ UNCHANGED <<mu, pc, wg, cfg, discoveryState, matching, next, check, pyVars, fetches, signal>>

\* deferred a.mu.Unlock(), then return to the caller
addUnlock(t) ==
    /\ threads[t].pc = "add_unlock"
    /\ mu' = IF mu = t THEN 0 ELSE mu
    /\ threads' = [threads EXCEPT ![t].pc = "returned"]
    /\ UNCHANGED <<worstStatus, results, pc, wg, cfg, discoveryState, matching, next, check, pyVars, fetches, signal>>

(***************************************************************************)
(* Specification SpecAcc: callers adding arbitrary results to a fresh      *)
(* accumulator (accumulator_test.go).                                      *)
(***************************************************************************)
Callers == 1..MaxCallers

TestMessages == {<<"foo">>, <<"bar">>}

TestResults == [status : Statuses, message : TestMessages, perf : {<<>>}]

InitAcc ==
    /\ mu = 0
    /\ worstStatus = newAccumulator.worstStatus
    /\ results = newAccumulator.results
    /\ threads = [t \in Callers |-> idleThread]
    /\ pc = "test"
    /\ wg = 0
    /\ cfg = <<>>
    /\ discoveryState = <<>>
    /\ matching = <<>>
    /\ next = 0
    /\ check = [Status |-> StatusOK, messages |-> <<>>, perf |-> <<>>]
    /\ checks = <<>>
    /\ response_data_seen = {}
    /\ fetches = <<>>
    /\ signal = "none"

\* acc.add(result{...}) called by caller t
testCall(t) ==
    /\ pc = "test"
    /\ threads[t].pc = "idle"
    /\ \E r \in TestResults : threads' = [threads EXCEPT ![t] = callAdd(t, r)]
    /\ UNCHANGED <<mu, worstStatus, results, pc, wg, cfg, discoveryState, matching, next, check, pyVars, fetches, signal>>

\* c := nagios.NewCheck(); acc.updateCheck(c, ...) once the adds have returned
testUpdateCheck ==
    /\ pc = "test"
    /\ \A t \in Callers : threads[t].pc \in {"idle", "returned"}
    /\ check' = [check EXCEPT !.Status = worstStatus,
                              !.messages = [i \in DOMAIN results |-> results[i].message],
                              !.perf = <<>>]
    /\ pc' = "updated"
    /\ UNCHANGED <<mu, worstStatus, results, threads, wg, cfg, discoveryState, matching, next, pyVars, fetches, signal>>

NextAcc ==
    \/ \E t \in Callers : testCall(t)
    \/ \E t \in Callers : addLock(t)
    \/ \E t \in Callers : addLoad(t)
    \/ \E t \in Callers : addStore(t)
    \/ \E t \in Callers : addUnlock(t)
    \/ testUpdateCheck

SpecAcc == InitAcc /\ [][NextAcc]_vars

(***************************************************************************)
(* Announcements (discovery.go).  metadata is the entry of the metadata    *)
(* map under tokenkey: absent, a JSON string or a JSON value of another    *)
(* type.  serviceUri and environment are left to the probe's environment.  *)
(***************************************************************************)
tokenkey == "server-token"

NoToken == [has |-> FALSE, type |-> "none", value |-> ""]

StringToken(s) == [has |-> TRUE, type |-> "string", value |-> s]

OtherToken(s) == [has |-> TRUE, type |-> "number", value |-> s]

Services == {"foo", "bar"}

RunMetadata == {NoToken, StringToken("a")}

AnnouncementIds == 1..MaxAnns

RunAnnouncements ==
    [announcementId : AnnouncementIds, serviceType : Services, metadata : RunMetadata]

\* lists of announcements with distinct ids, as the discovery server returns them
ListsOf(universe, n) ==
    {l \in UNION {[1..k -> universe] : k \in 0..n} :
        \A i, j \in DOMAIN l : i < j => l[i].announcementId < l[j].announcementId}

DiscoveryStates == ListsOf(RunAnnouncements, MaxAnns)

\* Announcement.serverToken
serverToken(a) ==
    IF a.metadata.has /\ a.metadata.type = "string" THEN a.metadata.value ELSE ""

(***************************************************************************)
(* check.go                                                                *)
(***************************************************************************)
RECURSIVE SelectService(_, _)
\* the filter loop of check.run
SelectService(anns, service) ==
    IF anns = <<>> THEN <<>>
    ELSE IF Head(anns).serviceType = service
         THEN <<Head(anns)>> \o SelectService(Tail(anns), service)
         ELSE SelectService(Tail(anns), service)

RECURSIVE quotaLoop(_, _, _)
\* the counting loop of checkQuota: seen is the set of keys mapped to true
quotaLoop(anns, seen, cnt) ==
    IF anns = <<>> THEN cnt
    ELSE LET tok == serverToken(Head(anns))
             ok == tok \in seen
         IN IF tok = "" \/ (tok # "" /\ ~ok)
            THEN quotaLoop(Tail(anns), seen \cup {tok}, cnt + 1)
            ELSE quotaLoop(Tail(anns), seen, cnt)

quotaCount_noDedup(anns) == Len(anns)

quotaCount(anns) == quotaLoop(anns, {}, 0)

quotaStatus_le(cnt, warn, crit) ==
    IF crit > 0 /\ cnt <= crit THEN StatusCrit
    ELSE IF warn > 0 /\ cnt <= warn THEN StatusWarn
    ELSE StatusOK

\* the threshold chain of checkQuota
quotaStatus(cnt, warn, crit) ==
    IF crit > 0 /\ cnt < crit THEN StatusCrit
    ELSE IF warn > 0 /\ cnt < warn THEN StatusWarn
    ELSE StatusOK

\* the result checkQuota adds
quotaResult(anns, warn, crit) ==
    LET cnt == quotaCount(anns)
        st == quotaStatus(cnt, warn, crit)
    IN [status |-> st,
        message |-> IF st = StatusCrit THEN <<"notOkMsg", cnt, crit>>
                    ELSE IF st = StatusWarn THEN <<"notOkMsg", cnt, warn>>
                    ELSE <<"okMsg", cnt, 0>>,
        perf |-> << <<"instances", cnt>> >>]

statusFor_5xxOnly(code) ==
    CASE code \div 100 = 2 -> StatusOK
      [] code \div 100 = 5 -> StatusCrit
      [] OTHER -> StatusWarn

statusFor(code) ==
    CASE code \div 100 = 2 -> StatusOK
      [] code \div 100 = 4 -> StatusWarn
      [] OTHER -> StatusCrit

ProbeCodes == {200, 404, 503}

\* what fetchAnnouncement returns: an error, or a response with a status code
FetchOutcomes == {[err |-> TRUE, statusCode |-> 0]}
                 \cup {[err |-> FALSE, statusCode |-> c] : c \in ProbeCodes}

\* the status checkAnnouncement gives a failed fetch
errStatus == StatusWarn

\* the result checkAnnouncement adds for announcement ann
announcementResult(ann, out) ==
    IF out.err
    THEN [status |-> errStatus,
          message |-> <<"failed to fetch", ann.announcementId, 0>>,
          perf |-> <<>>]
    ELSE [status |-> statusFor(out.statusCode),
          message |-> <<"status code", out.statusCode, ann.announcementId>>,
          perf |-> <<>>]

(***************************************************************************)
(* Specification Spec: one run of the Go check (main.go, check.go).        *)
(***************************************************************************)
MaxThreshold == 2

Thresholds ==
    {th \in [warn : 0..MaxThreshold, crit : 0..MaxThreshold] : th.warn >= th.crit}

Configs ==
    {[service |-> "foo", skipHealthcheck |-> s, warn |-> th.warn, crit |-> th.crit] :
        s \in BOOLEAN, th \in Thresholds}

Goroutines == 1..MaxAnns

Init ==
    /\ mu = 0
    /\ worstStatus = StatusOK
    /\ results = <<>>
    /\ threads = [t \in {0} \cup Goroutines |-> idleThread]
    /\ pc = "findAnnouncements"
    /\ wg = 0
    /\ cfg \in Configs
    /\ discoveryState = <<>>
    /\ matching = <<>>
    /\ next = 0
    /\ check = [Status |-> StatusOK, messages |-> <<>>, perf |-> <<>>]
    /\ checks = <<>>
    /\ response_data_seen = {}
    /\ fetches = <<>>
    /\ signal = "none"

findAnnouncements_ignoreErr ==
    /\ pc = "findAnnouncements"
    /\ \/ \E anns \in DiscoveryStates :
            /\ discoveryState' = anns
            /\ fetches' = Append(fetches, "ok")
       \/ /\ fetches' = Append(fetches, "failed")
          /\ UNCHANGED discoveryState
    /\ pc' = "run"
    /\ UNCHANGED <<mu, worstStatus, results, threads, wg, cfg, matching, next, check, pyVars, signal>>

\* anns, err := disco.findAnnouncements(ctx), the check struct, newAccumulator.
\* main.go stores anns in the field it calls announcements, which check.go
\* declares as discoveryState.
findAnnouncements ==
    /\ pc = "findAnnouncements"
    /\ \/ \E anns \in DiscoveryStates :
            /\ discoveryState' = anns
            /\ pc' = "run"
            /\ fetches' = Append(fetches, "ok")
            /\ UNCHANGED check
       \/ /\ check' = [check EXCEPT !.Status = StatusUnknown,
                                    !.messages = << <<"failed to fetch discovery state">> >>]
          /\ pc' = "done"
          /\ fetches' = Append(fetches, "failed")
          /\ UNCHANGED discoveryState
    /\ UNCHANGED <<mu, worstStatus, results, threads, wg, cfg, matching, next, pyVars, signal>>

\* check.run up to the call of checkQuota
run ==
    /\ pc = "run"
    /\ matching' = SelectService(discoveryState, cfg.service)
    /\ pc' = "checkQuota"
    /\ UNCHANGED <<mu, worstStatus, results, threads, wg, cfg, discoveryState, next, check, pyVars, fetches, signal>>

\* checkQuota up to its call of acc.add
checkQuota ==
    /\ pc = "checkQuota"
    /\ threads' = [threads EXCEPT ![0] = callAdd(0, quotaResult(matching, cfg.warn, cfg.crit))]
    /\ pc' = "checkQuota_add"
    /\ UNCHANGED <<mu, worstStatus, results, wg, cfg, discoveryState, matching, next, check, pyVars, fetches, signal>>

afterQuota_alwaysProbe ==
    /\ pc = "checkQuota_add"
    /\ threads[0].pc = "returned"
    /\ threads' = [threads EXCEPT ![0] = idleThread]
    /\ pc' = "checkInstances"
    /\ next' = 1
    /\ UNCHANGED <<mu, worstStatus, results, wg, cfg, discoveryState, matching, check, pyVars, fetches, signal>>

\* checkQuota returns; check.run tests skipHealthcheck
afterQuota ==
    /\ pc = "checkQuota_add"
    /\ threads[0].pc = "returned"
    /\ threads' = [threads EXCEPT ![0] = idleThread]
    /\ pc' = IF cfg.skipHealthcheck THEN "updateCheck" ELSE "checkInstances"
    /\ next' = 1
    /\ UNCHANGED <<mu, worstStatus, results, wg, cfg, discoveryState, matching, check, pyVars, fetches, signal>>

\* one iteration of the loop of checkInstances: wg.Add(1); go func(ann)
spawn ==
    /\ pc = "checkInstances"
    /\ next <= Len(matching)
    /\ wg' = wg + 1
    /\ threads' = [threads EXCEPT ![next].pc = "fetchAnnouncement"]
    /\ next' = next + 1
    /\ UNCHANGED <<mu, worstStatus, results, pc, cfg, discoveryState, matching, check, pyVars, fetches, signal>>

\* the loop of checkInstances ends
spawned ==
    /\ pc = "checkInstances"
    /\ next > Len(matching)
    /\ pc' = "wg.Wait"
    /\ UNCHANGED <<mu, worstStatus, results, threads, wg, cfg, discoveryState, matching, next, check, pyVars, fetches, signal>>

wgWait_noJoin ==
    /\ pc = "wg.Wait"
    /\ pc' = "updateCheck"
    /\ UNCHANGED <<mu, worstStatus, results, threads, wg, cfg, discoveryState, matching, next, check, pyVars, fetches, signal>>

\* wg.Wait() returns; checkInstances and check.run return
wgWait ==
    /\ pc = "wg.Wait"
    /\ wg = 0
    /\ pc' = "updateCheck"
    /\ UNCHANGED <<mu, worstStatus, results, threads, wg, cfg, discoveryState, matching, next, check, pyVars, fetches, signal>>

checkAnnouncement_dropErr(t) ==
    /\ threads[t].pc = "fetchAnnouncement"
    /\ \E out \in FetchOutcomes :
          threads' = [threads EXCEPT ![t] =
                        IF out.err THEN [idleThread EXCEPT !.pc = "returned"]
                        ELSE callAdd(t, announcementResult(matching[t], out))]
    /\ UNCHANGED <<mu, worstStatus, results, pc, wg, cfg, discoveryState, matching, next, check, pyVars, fetches, signal>>

checkAnnouncement_serial(t) ==
    /\ threads[t].pc = "fetchAnnouncement"
    /\ \A u \in Goroutines : u < t => threads[u].pc = "done"
    /\ \E out \in FetchOutcomes :
          threads' = [threads EXCEPT ![t] = callAdd(t, announcementResult(matching[t], out))]
    /\ UNCHANGED <<mu, worstStatus, results, pc, wg, cfg, discoveryState, matching, next, check, pyVars, fetches, signal>>

\* checkAnnouncement of goroutine t up to its call of acc.add
checkAnnouncement(t) ==
    /\ threads[t].pc = "fetchAnnouncement"
    /\ \E out \in FetchOutcomes :
          threads' = [threads EXCEPT ![t] = callAdd(t, announcementResult(matching[t], out))]
    /\ UNCHANGED <<mu, worstStatus, results, pc, wg, cfg, discoveryState, matching, next, check, pyVars, fetches, signal>>

\* checkAnnouncement returns in goroutine t; deferred wg.Done()
wgDone(t) ==
    /\ threads[t].pc = "returned"
    /\ wg' = wg - 1
    /\ threads' = [threads EXCEPT ![t].pc = "done"]
    /\ UNCHANGED <<mu, worstStatus, results, pc, cfg, discoveryState, matching, next, check, pyVars, fetches, signal>>

RECURSIVE allPerf(_)
allPerf(rs) == IF rs = <<>> THEN <<>> ELSE Head(rs).perf \o allPerf(Tail(rs))

\* acc.updateCheck(c, formatter); deferred c.Done()
updateCheck ==
    /\ pc = "updateCheck"
    /\ check' = [check EXCEPT !.Status = worstStatus,
                              !.messages = [i \in DOMAIN results |-> results[i].message],
                              !.perf = allPerf(results)]
    /\ pc' = "done"
    /\ UNCHANGED <<mu, worstStatus, results, threads, wg, cfg, discoveryState, matching, next, pyVars, fetches, signal>>

Next ==
    \/ findAnnouncements
    \/ run
    \/ checkQuota
    \/ afterQuota
    \/ spawn
    \/ spawned
    \/ wgWait
    \/ updateCheck
    \/ \E t \in Goroutines : checkAnnouncement(t)
    \/ \E t \in Goroutines : wgDone(t)
    \/ \E t \in {0} \cup Goroutines : addLock(t)
    \/ \E t \in {0} \cup Goroutines : addLoad(t)
    \/ \E t \in {0} \cup Goroutines : addStore(t)
    \/ \E t \in {0} \cup Goroutines : addUnlock(t)

Spec == Init /\ [][Next]_vars

(***************************************************************************)
(* The legacy check (check_service.py).  A Result is a record of code,     *)
(* message and announcement.  A message is the sequence of its parts, each *)
(* part a number placed as the part's text is placed in string order, so   *)
(* that comparing two messages part by part is comparing their strings.    *)
(***************************************************************************)
None == [announcementId |-> 0, serviceType |-> "", metadata |-> NoToken]

\* first parts: the topic of Result.__init__
topicAnnouncements == 1
topicConnectTimeout == 2
topicHealth == 3
topicReadTimeout == 4
topicResults == 5

\* second part: Result.codemap, placed as "critical" < "ok" < "warning"
codemap(code) == CASE code = 2 -> 1 [] code = 0 -> 2 [] OTHER -> 3

\* leading characters of the remaining text: newline < space < digits < letters
Newline == -1
Space == 0
Digits(n) == 1 + n
Letter(k) == 1000 + k

\* Result.__init__
Result(code, topic, message, announcement) ==
    [code |-> code, message |-> <<topic, codemap(code)>> \o message,
     announcement |-> announcement]

\* Result.create_with_uri: the uri of an announcement is placed by its id
create_with_uri(code, topic, uri, message, announcement) ==
    Result(code, topic, message \o <<uri>>, announcement)

RECURSIVE SeqLess(_, _)
\* string order on messages
SeqLess(a, b) ==
    IF b = <<>> THEN FALSE
    ELSE IF a = <<>> THEN TRUE
    ELSE IF Head(a) # Head(b) THEN Head(a) < Head(b)
    ELSE SeqLess(Tail(a), Tail(b))

\* order of the sort key (r.code, r.message)
KeyLess(r1, r2) ==
    \/ r1.code < r2.code
    \/ r1.code = r2.code /\ SeqLess(r1.message, r2.message)

RECURSIVE InsertDesc(_, _)
\* r goes after every element whose key is not less than its own
InsertDesc(sorted, r) ==
    IF sorted = <<>> THEN <<r>>
    ELSE IF KeyLess(Head(sorted), r) THEN <<r>> \o sorted
    ELSE <<Head(sorted)>> \o InsertDesc(Tail(sorted), r)

RECURSIVE SortFrom(_, _)
SortFrom(sorted, rest) ==
    IF rest = <<>> THEN sorted
    ELSE SortFrom(InsertDesc(sorted, Head(rest)), Tail(rest))

\* sort_results: results.sort(reverse=True, key=(code, message)), a stable sort
sort_results(rs) == SortFrom(<<>>, rs)

RECURSIVE countLoop(_, _, _)
\* Main.count_announcements
countLoop(announcements, seen, count) ==
    IF announcements = <<>> THEN count
    ELSE LET metadata == Head(announcements).metadata
         IN IF ~metadata.has
            THEN countLoop(Tail(announcements), seen, count + 1)
            ELSE IF metadata \notin seen
                 THEN countLoop(Tail(announcements), seen \cup {metadata}, count + 1)
                 ELSE countLoop(Tail(announcements), seen, count)

count_announcements(announcements) == countLoop(announcements, {}, 0)

\* the threshold chain of Main.run
announcementCode(count, critical_fewer, warn_fewer) ==
    IF count < critical_fewer THEN 2
    ELSE IF count < warn_fewer THEN 1
    ELSE 0

\* Main.make_announcement_result
make_announcement_result(code, count, critical_fewer, warn_fewer) ==
    Result(code, topicAnnouncements, <<Digits(count), critical_fewer, warn_fewer>>, None)

\* what EndpointChecker.check_endpoint returns
Exceptions == {"ConnectTimeout", "ReadTimeout", "ConnectionError", "Exception"}

Bodies == {1, 2}

Responses(ann) ==
    {[exc |-> e, status |-> 0, body |-> 0, announcement |-> ann] : e \in Exceptions}
    \cup {[exc |-> "None", status |-> c, body |-> b, announcement |-> ann] :
            c \in ProbeCodes, b \in Bodies}

\* Main.make_response_result; seen is response_data_seen before the call
make_response_result(code, status, body, announcement, seen) ==
    IF code # 0 /\ body \in seen
    THEN Result(code, topicHealth, <<Space, announcement.announcementId>>, announcement)
    ELSE create_with_uri(code, topicHealth, announcement.announcementId,
                         <<Digits(status), IF code # 0 THEN body ELSE 0>>, announcement)

\* Main.make_timeout_result
make_timeout_result(topic, announcement) ==
    create_with_uri(2, topic, announcement.announcementId, <<Letter(20)>>, announcement)

\* result = 0 if code == 2 else 1 if code == 4 else 2
responseCode(status) ==
    IF status \div 100 = 2 THEN 0 ELSE IF status \div 100 = 4 THEN 1 ELSE 2

\* Main.handle_response
handle_response(response, seen) ==
    CASE response.exc = "ConnectTimeout" ->
            make_timeout_result(topicConnectTimeout, response.announcement)
      [] response.exc = "ReadTimeout" ->
            make_timeout_result(topicReadTimeout, response.announcement)
      [] response.exc = "ConnectionError" ->
            create_with_uri(2, topicHealth, response.announcement.announcementId,
                            <<Letter(3)>>, response.announcement)
      [] response.exc = "Exception" ->
            create_with_uri(2, topicHealth, response.announcement.announcementId,
                            <<Letter(21)>>, response.announcement)
      [] OTHER ->
            make_response_result(responseCode(response.status), response.status,
                                 response.body, response.announcement, seen)

\* response_data_seen after handle_response(response)
seenAfter(response, seen) ==
    IF response.exc = "None" /\ responseCode(response.status) # 0
    THEN seen \cup {response.body}
    ELSE seen

RECURSIVE handleAll(_, _, _)
\* for chk in checks: results.append(self.handle_response(chk))
handleAll(chks, rs, seen) ==
    IF chks = <<>> THEN [results |-> rs, seen |-> seen]
    ELSE handleAll(Tail(chks), Append(rs, handle_response(Head(chks), seen)),
                   seenAfter(Head(chks), seen))

\* res.announcement not in announcements: == on the whole announcement
notIn(announcement, announcements) ==
    \A i \in DOMAIN announcements : announcements[i] # announcement

RECURSIVE downgradeLoop(_, _, _)
\* the loop "for res in results" of the re-check; done holds the results passed
downgradeLoop(done, rest, announcements) ==
    IF rest = <<>> THEN done
    ELSE LET res == Head(rest)
         IN IF res.code # 2 THEN done \o rest
            ELSE IF res.announcement = None
                 THEN downgradeLoop(Append(done, res), Tail(rest), announcements)
            ELSE IF notIn(res.announcement, announcements)
                 THEN downgradeLoop(
                        Append(done, [res EXCEPT !.code = 1,
                                                 !.message = Append(@, Newline)]),
                        Tail(rest), announcements)
            ELSE downgradeLoop(Append(done, res), Tail(rest), announcements)

\* number of results the loop downgraded
downgradedCount(before, after) ==
    Cardinality({i \in DOMAIN before : before[i].code # after[i].code})

recheckOk_toOk(rs, announcements) ==
    LET looped == downgradeLoop(<<>>, rs, announcements)
        cleared == [i \in DOMAIN rs |->
                      IF looped[i].code # rs[i].code THEN [looped[i] EXCEPT !.code = 0]
                      ELSE looped[i]]
        downgraded == downgradedCount(rs, looped)
    IN IF downgraded # 0
       THEN sort_results(Append(cleared,
                Result(0, topicResults, <<Letter(4), Digits(downgraded)>>, None)))
       ELSE looped

recheckOk_quotaToo(rs, announcements) ==
    LET looped == [i \in DOMAIN rs |->
                     IF rs[i].code = 2
                        /\ (rs[i].announcement = None \/ notIn(rs[i].announcement, announcements))
                     THEN [rs[i] EXCEPT !.code = 1, !.message = Append(@, Newline)]
                     ELSE rs[i]]
        downgraded == downgradedCount(rs, looped)
    IN IF downgraded # 0
       THEN sort_results(Append(looped,
                Result(1, topicResults, <<Letter(4), Digits(downgraded)>>, None)))
       ELSE looped

recheckOk_alwaysSummary(rs, announcements) ==
    LET looped == downgradeLoop(<<>>, rs, announcements)
        downgraded == downgradedCount(rs, looped)
    IN sort_results(Append(looped,
            Result(1, topicResults, <<Letter(4), Digits(downgraded)>>, None)))

recheckOk_noDowngrade(rs, announcements) == rs

\* the else branch of the re-check: the fetch succeeded
recheckOk(rs, announcements) ==
    LET looped == downgradeLoop(<<>>, rs, announcements)
        downgraded == downgradedCount(rs, looped)
    IN IF downgraded # 0
       THEN sort_results(Append(looped,
                Result(1, topicResults, <<Letter(4), Digits(downgraded)>>, None)))
       ELSE looped

recheckFailed_asEmpty(rs) == recheckOk(rs, <<>>)

\* the except branch of the re-check: the fetch failed
recheckFailed(rs) == Append(rs, Result(1, topicAnnouncements, <<Letter(6)>>, None))

(***************************************************************************)
(* Specification SpecPy: one run of Main.run.                              *)
(***************************************************************************)
PoolSize == 16

Workers == 1..MaxAnns

do_healthcheck == ~cfg.skipHealthcheck

InitPy ==
    /\ mu = 0
    /\ worstStatus = StatusOK
    /\ results = <<>>
    /\ threads = [t \in Workers |-> idleThread]
    /\ pc = "get_announcements"
    /\ wg = 0
    /\ cfg \in Configs
    /\ discoveryState = <<>>
    /\ matching = <<>>
    /\ next = 0
    /\ check = [retcode |-> -1, messages |-> <<>>]
    /\ checks = <<>>
    /\ response_data_seen = {}
    /\ fetches = <<>>
    /\ signal = "none"

\* backend, announcements = self.get_announcements(), or return 3
py_get_announcements ==
    /\ pc = "get_announcements"
    /\ \/ \E state \in DiscoveryStates :
            /\ discoveryState' = state
            /\ matching' = SelectService(state, cfg.service)
            /\ fetches' = Append(fetches, "ok")
            /\ pc' = "count_announcements"
            /\ UNCHANGED check
       \/ /\ fetches' = Append(fetches, "failed")
          /\ check' = [retcode |-> 3, messages |-> << <<"failed to get announcements">> >>]
          /\ pc' = "done"
          /\ UNCHANGED <<discoveryState, matching>>
    /\ UNCHANGED <<mu, worstStatus, results, threads, wg, cfg, next, pyVars, signal>>

\* count = self.count_announcements(announcements) and the first results.append
py_count ==
    /\ pc = "count_announcements"
    /\ LET count == count_announcements(matching)
           code == announcementCode(count, cfg.crit, cfg.warn)
       IN results' = <<make_announcement_result(code, count, cfg.crit, cfg.warn)>>
    /\ pc' = IF do_healthcheck THEN "imap_unordered" ELSE "sort_results"
    /\ UNCHANGED <<mu, worstStatus, threads, wg, cfg, discoveryState, matching, next, check,
                   pyVars, fetches, signal>>

\* pool.imap_unordered(ec.check_endpoint, announcements); pool.close()
py_imap_unordered ==
    /\ pc = "imap_unordered"
    /\ threads' = [t \in Workers |->
                     IF t <= Len(matching) THEN [idleThread EXCEPT !.pc = "queued"]
                     ELSE threads[t]]
    /\ pc' = "join"
    /\ UNCHANGED <<mu, worstStatus, results, wg, cfg, discoveryState, matching, next, check,
                   pyVars, fetches, signal>>

\* a free worker of the pool takes task t
py_take(t) ==
    /\ threads[t].pc = "queued"
    /\ Cardinality({u \in Workers : threads[u].pc = "check_endpoint"}) < PoolSize
    /\ threads' = [threads EXCEPT ![t].pc = "check_endpoint"]
    /\ UNCHANGED <<mu, worstStatus, results, pc, wg, cfg, discoveryState, matching, next,
                   check, pyVars, fetches, signal>>

\* EndpointChecker.check_endpoint returns its Response for task t
py_check_endpoint(t) ==
    /\ threads[t].pc = "check_endpoint"
    /\ \E response \in Responses(matching[t]) : checks' = Append(checks, response)
    /\ threads' = [threads EXCEPT ![t].pc = "done"]
    /\ UNCHANGED <<mu, worstStatus, results, pc, wg, cfg, discoveryState, matching, next,
                   check, response_data_seen, fetches, signal>>

\* pool.join() returns; the loop over checks appends one result per response
py_join ==
    /\ pc = "join"
    /\ \A t \in Workers : threads[t].pc \in {"idle", "done"}
    /\ LET handled == handleAll(checks, results, response_data_seen)
       IN /\ results' = handled.results
          /\ response_data_seen' = handled.seen
    /\ pc' = "sort_results"
    /\ UNCHANGED <<mu, worstStatus, threads, wg, cfg, discoveryState, matching, next, check,
                   checks, fetches, signal>>

\* sort_results()
py_sort_results ==
    /\ pc = "sort_results"
    /\ results' = sort_results(results)
    /\ pc' = "re-check"
    /\ UNCHANGED <<mu, worstStatus, threads, wg, cfg, discoveryState, matching, next, check,
                   pyVars, fetches, signal>>

py_recheck_anyMode ==
    /\ pc = "re-check"
    /\ \/ /\ results[1].code = 2
          /\ \E state \in DiscoveryStates :
                /\ discoveryState' = state
                /\ matching' = SelectService(state, cfg.service)
                /\ fetches' = Append(fetches, "ok")
                /\ results' = recheckOk(results, matching')
       \/ /\ results[1].code = 2
          /\ fetches' = Append(fetches, "failed")
          /\ results' = recheckFailed(results)
          /\ UNCHANGED <<discoveryState, matching>>
       \/ /\ results[1].code # 2
          /\ UNCHANGED <<results, discoveryState, matching, fetches>>
    /\ pc' = "print"
    /\ UNCHANGED <<mu, worstStatus, threads, wg, cfg, next, check, pyVars, signal>>

\* if results[0].code == 2 and self.args.do_healthcheck: the re-check block
py_recheck ==
    /\ pc = "re-check"
    /\ \/ /\ results[1].code = 2 /\ do_healthcheck
          /\ \E state \in DiscoveryStates :
                /\ discoveryState' = state
                /\ matching' = SelectService(state, cfg.service)
                /\ fetches' = Append(fetches, "ok")
                /\ results' = recheckOk(results, matching')
       \/ /\ results[1].code = 2 /\ do_healthcheck
          /\ fetches' = Append(fetches, "failed")
          /\ results' = recheckFailed(results)
          /\ UNCHANGED <<discoveryState, matching>>
       \/ /\ ~(results[1].code = 2 /\ do_healthcheck)
          /\ UNCHANGED <<results, discoveryState, matching, fetches>>
    /\ pc' = "print"
    /\ UNCHANGED <<mu, worstStatus, threads, wg, cfg, next, check, pyVars, signal>>

\* the messages are printed; return results[0].code
py_return ==
    /\ pc = "print"
    /\ check' = [retcode |-> results[1].code,
                 messages |-> [i \in DOMAIN results |-> results[i].message]]
    /\ pc' = "done"
    /\ UNCHANGED <<mu, worstStatus, results, threads, wg, cfg, discoveryState, matching,
                   next, pyVars, fetches, signal>>

NextPy ==
    \/ py_get_announcements
    \/ py_count
    \/ py_imap_unordered
    \/ \E t \in Workers : py_take(t)
    \/ \E t \in Workers : py_check_endpoint(t)
    \/ py_join
    \/ py_sort_results
    \/ py_recheck
    \/ py_return

SpecPy == InitPy /\ [][NextPy]_vars

\* main and the goroutines are scheduled, and every
\* fetchAnnouncement ends with a response or an error
SpecLive == Init /\ [][Next]_vars /\ WF_vars(Next)

(***************************************************************************)
(* Specification SpecFlags: the Go check from the parsing of its flags.    *)
(* A header is the sequence of its characters.                             *)
(***************************************************************************)
FlagValues == (0 - 1)..MaxThreshold

FlagHeaders == {<<>>, << <<"A", ":", "b">> >>, << <<"A", ":", "b">>, <<"b", "a", "d">> >>}

RawFlags ==
    [service : {"foo"}, skipHealthcheck : BOOLEAN, warn : FlagValues, crit : FlagValues,
     timeout : {0, 5}, headers : FlagHeaders]

\* parseHeaders returns an error: some header holds no ":"
parseHeadersErr(hs) ==
    \E i \in DOMAIN hs : \A k \in DOMAIN hs[i] : hs[i][k] # ":"

\* if *crit < 0 { *crit = 0 } and the same for warn
clampFlag(n) == IF n < 0 THEN 0 ELSE n

\* the message of the usageErrorAndExit that main reaches, "" when none
usageError(flags) ==
    IF flags.timeout <= 0 THEN "timeout must be greater than zero"
    ELSE IF clampFlag(flags.warn) < clampFlag(flags.crit) THEN "warn must be greater than crit"
    ELSE IF parseHeadersErr(flags.headers) THEN "failed to parse headers"
    ELSE ""

\* Main.__init__ of the legacy check: "ok", or the exit code.  http_header
\* raises ArgumentTypeError inside parse_args, which argparse ends with code 2;
\* the checks after parse_args end through parser_error with code 3
Main_init(args) ==
    IF parseHeadersErr(args.headers) THEN "exit 2"
    ELSE IF args.timeout <= 0 THEN "exit 3"
    ELSE IF args.crit < 0 THEN "exit 3"
    ELSE IF args.warn < 0 THEN "exit 3"
    ELSE IF args.warn < args.crit THEN "exit 3"
    ELSE "ok"

InitFlags ==
    /\ mu = 0
    /\ worstStatus = StatusOK
    /\ results = <<>>
    /\ threads = [t \in {0} \cup Goroutines |-> idleThread]
    /\ pc = "pflag.Parse"
    /\ wg = 0
    /\ cfg \in RawFlags
    /\ discoveryState = <<>>
    /\ matching = <<>>
    /\ next = 0
    /\ check = [Status |-> StatusOK, messages |-> <<>>, perf |-> <<>>]
    /\ checks = <<>>
    /\ response_data_seen = {}
    /\ fetches = <<>>
    /\ signal = "none"

\* main from pflag.Parse() to "start check": exit with the UNKNOWN code, or go
\* on with the clamped thresholds
parseFlags ==
    /\ pc = "pflag.Parse"
    /\ IF usageError(cfg) # ""
       THEN /\ check' = [check EXCEPT !.Status = StatusUnknown,
                                      !.messages = << <<usageError(cfg)>> >>]
            /\ pc' = "exit"
            /\ UNCHANGED cfg
       ELSE /\ cfg' = [service |-> cfg.service, skipHealthcheck |-> cfg.skipHealthcheck,
                       warn |-> clampFlag(cfg.warn), crit |-> clampFlag(cfg.crit)]
            /\ pc' = "findAnnouncements"
            /\ UNCHANGED check
    /\ UNCHANGED <<mu, worstStatus, results, threads, wg, discoveryState, matching, next,
                   pyVars, fetches, signal>>

NextFlags == parseFlags \/ Next

SpecFlags == InitFlags /\ [][NextFlags]_vars

(***************************************************************************)
(* Specification SpecCancel: the Go check in an environment that asks the  *)
(* run to stop.  main installs no signal handler and passes                *)
(* context.Background(), which is never cancelled and has no deadline, to  *)
(* check.run: a terminating signal ends the process under the runtime's    *)
(* default disposition, and the passing of a deadline set by the caller    *)
(* reaches no request.                                                     *)
(***************************************************************************)
extSignal ==
    /\ signal = "none"
    /\ pc # "done"
    /\ \/ /\ signal' = "SIGTERM"
          /\ pc' = "killed"
          /\ threads' = [t \in DOMAIN threads |-> [threads[t] EXCEPT !.pc = "killed"]]
       \/ /\ signal' = "deadline"
          /\ UNCHANGED <<pc, threads>>
    /\ UNCHANGED <<mu, worstStatus, results, wg, cfg, discoveryState, matching, next, check,
                   pyVars, fetches>>

NextCancel == Next \/ extSignal

SpecCancel == Init /\ [][NextCancel]_vars /\ WF_vars(Next)

(***************************************************************************)
(* Specification SpecFn: the pure functions applied to inputs drawn from   *)
(* bounded sets.  pc names the function, matching or cfg holds its input   *)
(* and check its output.                                                   *)
(***************************************************************************)
MaxFnAnns == 3
MaxCount == 6
MaxFnThreshold == 6
MaxCode == 699

FnMetadata ==
    {NoToken, StringToken(""), StringToken("a"), StringToken("b"), OtherToken("1")}

FnAnnouncements ==
    [announcementId : 1..MaxFnAnns, serviceType : {"foo"}, metadata : FnMetadata]

FnLists == ListsOf(FnAnnouncements, MaxFnAnns)

FnThresholds == [cnt : 0..MaxCount, warn : 0..MaxFnThreshold, crit : 0..MaxFnThreshold]

FnCodes == [code : 0..MaxCode]

ListFunctions == {"checkQuota", "count_announcements"}

ThresholdFunctions == {"checkQuota.status", "announcementCode"}

CodeFunctions == {"statusFor", "handle_response"}

InitFn ==
    /\ mu = 0
    /\ worstStatus = StatusOK
    /\ results = <<>>
    /\ threads = <<>>
    /\ pc \in ListFunctions \cup ThresholdFunctions \cup CodeFunctions
    /\ wg = 0
    /\ cfg \in IF pc \in ThresholdFunctions THEN FnThresholds
               ELSE IF pc \in CodeFunctions THEN FnCodes
               ELSE {<<>>}
    /\ discoveryState = <<>>
    /\ matching \in IF pc \in ListFunctions THEN FnLists ELSE {<<>>}
    /\ next = 0
    /\ check = <<>>
    /\ checks = <<>>
    /\ response_data_seen = {}
    /\ fetches = <<>>
    /\ signal = "none"

\* the count of checkQuota for the announcements in matching
fnCheckQuota ==
    /\ pc = "checkQuota"
    /\ check' = [out |-> quotaCount(matching)]
    /\ pc' = "checkQuota returned"
    /\ UNCHANGED <<mu, worstStatus, results, threads, wg, cfg, discoveryState, matching,
                   next, pyVars, fetches, signal>>

\* Main.count_announcements for the announcements in matching
fnCountAnnouncements ==
    /\ pc = "count_announcements"
    /\ check' = [out |-> count_announcements(matching)]
    /\ pc' = "count_announcements returned"
    /\ UNCHANGED <<mu, worstStatus, results, threads, wg, cfg, discoveryState, matching,
                   next, pyVars, fetches, signal>>

\* the status checkQuota gives the count cfg.cnt
fnQuotaStatus ==
    /\ pc = "checkQuota.status"
    /\ check' = [out |-> quotaStatus(cfg.cnt, cfg.warn, cfg.crit)]
    /\ pc' = "checkQuota.status returned"
    /\ UNCHANGED <<mu, worstStatus, results, threads, wg, cfg, discoveryState, matching,
                   next, pyVars, fetches, signal>>

\* the code Main.run gives the count cfg.cnt
fnAnnouncementCode ==
    /\ pc = "announcementCode"
    /\ check' = [out |-> announcementCode(cfg.cnt, cfg.crit, cfg.warn)]
    /\ pc' = "announcementCode returned"
    /\ UNCHANGED <<mu, worstStatus, results, threads, wg, cfg, discoveryState, matching,
                   next, pyVars, fetches, signal>>

\* statusFor(cfg.code)
fnStatusFor ==
    /\ pc = "statusFor"
    /\ check' = [out |-> statusFor(cfg.code)]
    /\ pc' = "statusFor returned"
    /\ UNCHANGED <<mu, worstStatus, results, threads, wg, cfg, discoveryState, matching,
                   next, pyVars, fetches, signal>>

\* the code of Main.handle_response for a response of status cfg.code
fnHandleResponse ==
    /\ pc = "handle_response"
    /\ check' = [out |-> responseCode(cfg.code)]
    /\ pc' = "handle_response returned"
    /\ UNCHANGED <<mu, worstStatus, results, threads, wg, cfg, discoveryState, matching,
                   next, pyVars, fetches, signal>>

NextFn ==
    \/ fnCheckQuota
    \/ fnCountAnnouncements
    \/ fnQuotaStatus
    \/ fnAnnouncementCode
    \/ fnStatusFor
    \/ fnHandleResponse

SpecFn == InitFn /\ [][NextFn]_vars

(***************************************************************************)
(* Properties                                                              *)
(***************************************************************************)
\* the order OK < UNKNOWN < WARN < CRIT
SeverityRank(s) ==
    CASE s = "OK" -> 0 [] s = "UNKNOWN" -> 1 [] s = "WARN" -> 2 [] s = "CRIT" -> 3

\* the maximum severity of a list of results, OK for the empty list
MaxSeverity(rs) ==
    LET present == {"OK"} \cup {rs[i].status : i \in DOMAIN rs}
    IN CHOOSE s \in present : \A x \in present : SeverityRank(s) >= SeverityRank(x)

\* C1: whenever no add is in progress, worstStatus is the maximum severity,
\* under OK < UNKNOWN < WARN < CRIT, of the results added so far (OK when
\* none was added), whatever the order and interleaving of the adds.
C1_WorstIsMax == mu = 0 => worstStatus = MaxSeverity(results)

C1_Witness ==
    /\ mu = 0
    /\ Len(results) = 3
    /\ results[1].status = "UNKNOWN"
    /\ results[2].status = "CRIT"
    /\ results[3].status = "OK"
    /\ worstStatus = "CRIT"

\* worstStatus never decreases (a consequence of C1 checked on its own)
WorstNeverDecreases ==
    [][SeverityRank(worstStatus') >= SeverityRank(worstStatus)]_vars

\* the run has computed or is about to compute the verdict from the accumulator
Finalizing == pc \in {"updateCheck", "done"} /\ fetches = <<"ok">>

IsQuotaOutcome(r) == r.message[1] \in {"okMsg", "notOkMsg"}

IsProbeOutcomeOf(r, ann) ==
    \/ r.message[1] = "failed to fetch" /\ r.message[2] = ann.announcementId
    \/ r.message[1] = "status code" /\ r.message[3] = ann.announcementId

\* C2: with health probing enabled, when the verdict is finalized the results
\* hold exactly one quota outcome and exactly one probe outcome for each
\* announcement of the target service, and nothing else.
C2_OneOutcomePerAnnouncement ==
    (Finalizing /\ ~cfg.skipHealthcheck) =>
        /\ Cardinality({i \in DOMAIN results : IsQuotaOutcome(results[i])}) = 1
        /\ \A k \in DOMAIN discoveryState :
              discoveryState[k].serviceType = cfg.service =>
                 Cardinality({i \in DOMAIN results :
                                IsProbeOutcomeOf(results[i], discoveryState[k])}) = 1
        /\ Len(results) =
              1 + Cardinality({k \in DOMAIN discoveryState :
                                 discoveryState[k].serviceType = cfg.service})

C2_Witness ==
    /\ pc = "done"
    /\ ~cfg.skipHealthcheck
    /\ Len(matching) = 2
    /\ \E i, j, k \in DOMAIN results :
          /\ results[i].message[1] = "failed to fetch"
          /\ results[j].message[1] = "status code" /\ results[j].status = "CRIT"
          /\ IsQuotaOutcome(results[k])
    /\ Len(check.messages) = 3

\* C3: the verdict is computed only when every dispatched probe has returned
\* and its outcome is in the accumulator.
C3_JoinBeforeVerdict ==
    pc \in {"updateCheck", "done"} =>
        \A t \in Goroutines :
            threads[t].pc # "idle" =>
                /\ threads[t].pc = "done"
                /\ \E i \in DOMAIN results : results[i] = threads[t].r

C3_Witness ==
    /\ pc = "updateCheck"
    /\ \A t \in Goroutines : threads[t].pc = "done"
    /\ Len(results) = 1 + MaxAnns

\* an announcement carries a dedup token when its metadata has a non-empty
\* string under the token key
CarriesToken(a) ==
    a.metadata.has /\ a.metadata.type = "string" /\ a.metadata.value # ""

C5_QuotaSeverity ==
    pc = "checkQuota.status returned" =>
        check.out =
            IF cfg.crit > 0 /\ cfg.cnt < cfg.crit THEN "CRIT"
            ELSE IF cfg.warn > 0 /\ cfg.cnt < cfg.warn THEN "WARN"
            ELSE "OK"

\* crit=3, warn=5: count 4 gives WARN
C5_Witness ==
    /\ pc = "checkQuota.status returned"
    /\ cfg = [cnt |-> 4, warn |-> 5, crit |-> 3]
    /\ check.out = "WARN"

\* C6: a status code in 200..299 gives OK, one in 400..499 gives WARN and
\* every other code gives CRIT.
C6_StatusFamilies ==
    pc = "statusFor returned" =>
        check.out =
            IF cfg.code >= 200 /\ cfg.code <= 299 THEN "OK"
            ELSE IF cfg.code >= 400 /\ cfg.code <= 499 THEN "WARN"
            ELSE "CRIT"

\* 301 gives CRIT
C6_Witness ==
    /\ pc = "statusFor returned"
    /\ cfg.code = 301
    /\ check.out = "CRIT"

\* C7: every probe that failed at transport level has an outcome of severity
\* WARN, never CRIT, once the probes have joined (legacy check: code 1).
C7_TransportFailureIsWarn ==
    pc = "sort_results" =>
        \A k \in DOMAIN checks :
            checks[k].exc # "None" =>
                \E i \in DOMAIN results :
                    /\ results[i].announcement = checks[k].announcement
                    /\ results[i].code = 1

\* the Go check gives a failed fetch the status WARN (checked under Spec)
GoTransportFailureIsWarn ==
    \A i \in DOMAIN results :
        results[i].message[1] = "failed to fetch" => results[i].status = "WARN"

\* the legacy run too has one result per announcement probed, plus the quota
\* result, once the pool has joined (checked under SpecPy)
LegacyOneResultPerResponse ==
    (pc = "sort_results" /\ do_healthcheck) =>
        /\ Len(results) = 1 + Len(matching)
        /\ \A k \in DOMAIN matching :
              Cardinality({i \in DOMAIN results :
                             results[i].announcement = matching[k]}) = 1

\* the legacy threshold chain and status families agree with the Go ones
\* (checked under SpecFn)
LegacyAgreesOnSeverity ==
    /\ pc = "announcementCode returned" =>
          check.out = CASE quotaStatus(cfg.cnt, cfg.warn, cfg.crit) = "CRIT" -> 2
                        [] quotaStatus(cfg.cnt, cfg.warn, cfg.crit) = "WARN" -> 1
                        [] OTHER -> 0
    /\ pc = "handle_response returned" =>
          check.out = CASE statusFor(cfg.code) = "CRIT" -> 2
                        [] statusFor(cfg.code) = "WARN" -> 1
                        [] OTHER -> 0

\* the re-check step of the legacy run, with a fetch that succeeded or failed
RecheckStep(outcome) ==
    /\ pc = "re-check"
    /\ pc' = "print"
    /\ fetches' = Append(fetches, outcome)

CritIndexes(rs) == {i \in DOMAIN rs : rs[i].code = 2}

ListedIds(announcements) ==
    {announcements[i].announcementId : i \in DOMAIN announcements}

\* C8: when exactly one outcome is CRIT, it is tied to an announcement X and
\* the fresh fetch succeeds without listing X, that outcome becomes WARN with
\* the downgrade annotation appended and the final severity is WARN.
C8_SoleCritDowngraded ==
    [][\A i \in DOMAIN results :
          (/\ RecheckStep("ok")
           /\ CritIndexes(results) = {i}
           /\ results[i].announcement # None
           /\ results[i].announcement.announcementId \notin ListedIds(discoveryState'))
          => /\ \E j \in DOMAIN results' :
                   results'[j] = [results[i] EXCEPT !.code = 1,
                                                    !.message = Append(@, Newline)]
             /\ CritIndexes(results') = {}
             /\ results'[1].code = 1]_vars

C8_Witness ==
    /\ pc = "print"
    /\ fetches = <<"ok", "ok">>
    /\ results[1].code = 1
    /\ Cardinality({i \in DOMAIN results :
                      /\ results[i].announcement # None
                      /\ results[i].message[Len(results[i].message)] = Newline
                      /\ results[i].announcement.announcementId
                            \notin ListedIds(discoveryState)}) = 1
    /\ Cardinality({i \in DOMAIN results :
                      results[i].message[Len(results[i].message)] = Newline}) = 1

\* C9: in a re-check whose fetch succeeded, a CRIT outcome whose announcement
\* id is still listed for the service in the fresh fetch stays CRIT.
C9_ListedCritStays ==
    [][\A i \in DOMAIN results :
          (/\ RecheckStep("ok")
           /\ results[i].code = 2
           /\ results[i].announcement # None
           /\ results[i].announcement.announcementId \in ListedIds(matching'))
          => \E j \in DOMAIN results' : results'[j] = results[i]]_vars

\* C10: when the fetch of the re-check fails, the results are the ones before
\* it with one WARN outcome about the failed re-check appended, and the final
\* severity is CRIT.
C10_FailedRecheckKeepsCrit ==
    [][RecheckStep("failed") =>
          /\ Len(results') = Len(results) + 1
          /\ \A i \in DOMAIN results : results'[i] = results[i]
          /\ results'[Len(results')].code = 1
          /\ results'[Len(results')].message[1] = topicAnnouncements
          /\ results'[Len(results')].announcement = None
          /\ results'[1].code = 2]_vars

C10_Witness ==
    /\ pc = "print"
    /\ fetches = <<"ok", "failed">>
    /\ Cardinality(CritIndexes(results)) = 2
    /\ results[Len(results)].code = 1
    /\ results[Len(results)].message = <<topicAnnouncements, codemap(1), Letter(6)>>


\* C11: the announcement source is fetched once at the start of the run and a
\* second time exactly when probing is enabled and the aggregate after the
\* probes joined is CRIT; never more than twice.
C11_SecondFetchIffCrit ==
    /\ pc # "findAnnouncements" => Len(fetches) >= 1
    /\ Len(fetches) <= 2
    /\ (pc = "done" /\ fetches[1] = "ok") =>
          (Len(fetches) = 2 <=> (~cfg.skipHealthcheck /\ worstStatus = "CRIT"))

\* the legacy run fetches a second time exactly when probing is enabled and
\* some result is critical after the sort (checked under SpecPy)
LegacySecondFetchIffCrit ==
    [](Len(fetches) <= 2 /\ (pc # "get_announcements" => Len(fetches) >= 1))
    /\ [][pc = "re-check" =>
            (Len(fetches') = Len(fetches) + 1
               <=> (do_healthcheck /\ CritIndexes(results) # {}))]_vars

\* C12: when the initial fetch fails the run ends UNKNOWN with no quota
\* outcome, no probe started and no second fetch.
C12_FailedFetchIsUnknown ==
    (fetches # <<>> /\ fetches[1] = "failed") =>
        /\ pc = "done"
        /\ check.Status = "UNKNOWN"
        /\ results = <<>>
        /\ \A t \in DOMAIN threads : threads[t].pc = "idle"
        /\ wg = 0
        /\ fetches = <<"failed">>

C12_Witness ==
    /\ pc = "done"
    /\ fetches = <<"failed">>
    /\ check.Status = "UNKNOWN"
    /\ ~cfg.skipHealthcheck
    /\ cfg.crit > 0


\* C13: the outcome list is kept in arrival order: every change of the list
\* appends the arriving outcome and leaves the earlier ones in place, and
\* updateCheck emits the messages in that order with the worst severity
\* (CRIT "foo" then WARN "bar" gives [foo, bar] and CRIT).
C13_ArrivalOrder ==
    /\ [][results' # results =>
            \E t \in DOMAIN threads :
               /\ threads[t].pc = "add_store"
               /\ results' = Append(results, threads[t].r)]_vars
    /\ [](pc = "updated" =>
            /\ Len(check.messages) = Len(results)
            /\ \A i \in DOMAIN results : check.messages[i] = results[i].message
            /\ check.Status = MaxSeverity(results))

C13_Witness ==
    /\ pc = "updated"
    /\ Len(results) = 2
    /\ results[1].status = "CRIT" /\ results[1].message = <<"foo">>
    /\ results[2].status = "WARN" /\ results[2].message = <<"bar">>
    /\ check.messages = << <<"foo">>, <<"bar">> >>
    /\ check.Status = "CRIT"


\* C15: concurrent add calls are mutually exclusive: at most one caller is
\* between Lock and Unlock, every stored outcome is in the list exactly once
\* (none lost, none duplicated) and worstStatus is at least as severe as every
\* stored outcome.
InAdd == {t \in DOMAIN threads : threads[t].pc \in {"add_load", "add_store", "add_unlock"}}

Stored == {t \in DOMAIN threads : threads[t].pc \in {"add_unlock", "returned"}}

C15_AddIsExclusive ==
    /\ Cardinality(InAdd) <= 1
    /\ InAdd # {} => mu \in InAdd
    /\ Len(results) = Cardinality(Stored)
    /\ \A r \in {threads[t].r : t \in Stored} :
          Cardinality({i \in DOMAIN results : results[i] = r})
             = Cardinality({t \in Stored : threads[t].r = r})
    /\ \A t \in Stored :
          SeverityRank(worstStatus) >= SeverityRank(threads[t].r.status)

C15_Witness ==
    \E t \in Callers, u \in Callers :
        /\ t # u
        /\ threads[t].pc = "add_store"
        /\ threads[u].pc = "add_lock"
        /\ Len(results) = 1
        /\ threads[t].r.status = "CRIT"
        /\ threads[u].r.status = "WARN"


\* C16: probes are independent.  While a probe waits on its own I/O it does not
\* hold the accumulator, and every other started probe can take its next step:
\* finish its own I/O, or go through add (whose lock, when taken, is held by a
\* caller that is itself able to proceed).  At finalization the outcomes are the
\* quota outcome and the one outcome each probe made, whatever the interleaving.
CanProceed(u) ==
    /\ threads[u].pc = "fetchAnnouncement" => ENABLED checkAnnouncement(u)
    /\ threads[u].pc = "add_lock" =>
          \/ ENABLED addLock(u)
          \/ /\ mu \in DOMAIN threads
             /\ threads[mu].pc \in {"add_load", "add_store", "add_unlock"}
             /\ ENABLED (addLoad(mu) \/ addStore(mu) \/ addUnlock(mu))
    /\ threads[u].pc = "add_load" => ENABLED addLoad(u)
    /\ threads[u].pc = "add_store" => ENABLED addStore(u)
    /\ threads[u].pc = "add_unlock" => ENABLED addUnlock(u)
    /\ threads[u].pc = "returned" => ENABLED wgDone(u)

C16_ProbesIndependent ==
    /\ \A t \in Goroutines :
          threads[t].pc = "fetchAnnouncement" =>
             /\ mu # t
             /\ \A u \in Goroutines \ {t} : CanProceed(u)
    /\ (Finalizing /\ ~cfg.skipHealthcheck) =>
          /\ Len(results) = 1 + Len(matching)
          /\ \A t \in 1..Len(matching) :
                /\ threads[t].pc = "done"
                /\ Cardinality({i \in DOMAIN results : results[i] = threads[t].r}) = 1
                /\ IsProbeOutcomeOf(threads[t].r, matching[t])

C16_Witness ==
    /\ threads[1].pc = "fetchAnnouncement"
    /\ threads[2].pc = "done"
    /\ Len(results) = 2
    /\ results[2] = threads[2].r


\* C17: with the health checks skipped no probe is started, the list at
\* finalization is the single quota outcome, the final severity is the quota
\* severity and nothing is fetched a second time, even when the quota is CRIT.
C17_SkipIsQuotaOnly ==
    (cfg.skipHealthcheck /\ fetches # <<>> /\ fetches[1] = "ok") =>
        /\ \A t \in DOMAIN threads : threads[t].pc = "idle"
        /\ checks = <<>>
        /\ fetches = <<"ok">>
        /\ pc \in {"sort_results", "re-check", "print", "done"} =>
              LET count == count_announcements(matching)
                  code == announcementCode(count, cfg.crit, cfg.warn)
              IN /\ results = <<make_announcement_result(code, count, cfg.crit, cfg.warn)>>
                 /\ results[1].announcement = None
                 /\ pc = "done" => check.retcode = code /\ Len(check.messages) = 1

\* the same for the Go check (checked under Spec)
GoSkipIsQuotaOnly ==
    (cfg.skipHealthcheck /\ fetches # <<>> /\ fetches[1] = "ok") =>
        /\ \A t \in Goroutines : threads[t].pc = "idle"
        /\ fetches = <<"ok">>
        /\ pc \in {"updateCheck", "done"} =>
              /\ results = <<quotaResult(matching, cfg.warn, cfg.crit)>>
              /\ pc = "done" => check.Status = results[1].status

C17_Witness ==
    /\ cfg.skipHealthcheck
    /\ pc = "done"
    /\ check.retcode = 2
    /\ Len(results) = 1
    /\ Len(matching) >= 1
    /\ fetches = <<"ok">>


\* C18: a successful re-check reports its downgrades exactly once.  With n the
\* number of outcomes downgraded by the step: when n > 0 the list grows by one
\* WARN summary carrying n, when n = 0 the list is unchanged, and the head of
\* the list (the final severity) is the maximum over all outcomes, the summary
\* included.
Marked(rs) == {i \in DOMAIN rs : rs[i].message[Len(rs[i].message)] = Newline}

Summaries(rs) == {i \in DOMAIN rs : rs[i].message[1] = topicResults}

C18_OneSummary ==
    [][RecheckStep("ok") =>
         LET n == Cardinality(Marked(results'))
         IN /\ Marked(results) = {} /\ Summaries(results) = {}
            /\ n = Cardinality(CritIndexes(results)) - Cardinality(CritIndexes(results'))
            /\ n > 0 =>
                 /\ Len(results') = Len(results) + 1
                 /\ Cardinality(Summaries(results')) = 1
                 /\ \A i \in Summaries(results') :
                       results'[i] = Result(1, topicResults, <<Letter(4), Digits(n)>>, None)
            /\ n = 0 => results' = results
            /\ \A i \in DOMAIN results' : results'[1].code >= results'[i].code]_vars

C18_Witness ==
    /\ pc = "print"
    /\ fetches = <<"ok", "ok">>
    /\ Cardinality(Marked(results)) = 2
    /\ \E i \in DOMAIN results :
          results[i] = Result(1, topicResults, <<Letter(4), Digits(2)>>, None)
    /\ results[1].code = 1

\* a successful re-check that downgrades nothing is reached as well
C18_NoDowngradeReached ==
    /\ pc = "print"
    /\ fetches = <<"ok", "ok">>
    /\ Marked(results) = {}
    /\ Summaries(results) = {}
    /\ results[1].code = 2


\* C19: outcomes are immutable but for one case: a successful re-check lowers
\* to WARN a CRIT outcome whose announcement id is no longer listed.  Every
\* other outcome (not CRIT, CRIT and still listed, or without announcement)
\* stays in the list as it is, and no outcome becomes more severe.
Count(rs, r) == Cardinality({i \in DOMAIN rs : rs[i] = r})

Lowered(r) == [r EXCEPT !.code = 1, !.message = Append(@, Newline)]

C19_OnlyAbsentCritLowered ==
    [][\A i \in DOMAIN results :
          LET r == results[i]
          IN IF /\ RecheckStep("ok")
                /\ r.code = 2
                /\ r.announcement # None
                /\ r.announcement.announcementId \notin ListedIds(matching')
             THEN Count(results', r) + Count(results', Lowered(r))
                     >= Count(results, r)
             ELSE Count(results', r) >= Count(results, r)]_vars

\* what the legacy run keeps: only a CRIT outcome whose announcement, compared
\* as a whole value, is not in the fresh list is lowered (checked under SpecPy)
LegacyOnlyUnequalCritLowered ==
    [][\A i \in DOMAIN results :
          LET r == results[i]
          IN IF /\ RecheckStep("ok")
                /\ r.code = 2
                /\ r.announcement # None
                /\ notIn(r.announcement, matching')
             THEN Count(results', Lowered(r)) >= Count(results, r)
             ELSE Count(results', r) >= Count(results, r)]_vars




\* C14: a run whose first fetch succeeded ends with exactly one verdict, and
\* its phases come in order, none twice: COLLECTING, QUOTA_EVALUATED, then
\* PROBING and AGGREGATED only when probing is enabled, then RECONCILING and
\* FINAL only when probing is enabled and the aggregate is CRIT, then DONE.
PhaseOrder ==
    {<<"COLLECTING", "QUOTA_EVALUATED">>, <<"COLLECTING", "DONE">>,
     <<"QUOTA_EVALUATED", "PROBING">>, <<"QUOTA_EVALUATED", "DONE">>,
     <<"PROBING", "AGGREGATED">>, <<"AGGREGATED", "RECONCILING">>,
     <<"AGGREGATED", "DONE">>, <<"RECONCILING", "FINAL">>, <<"FINAL", "DONE">>}

\* the phase of the Go check, which has no re-check
Phase ==
    CASE pc \in {"findAnnouncements", "run", "checkQuota", "checkQuota_add"} -> "COLLECTING"
      [] pc = "checkInstances" -> IF next = 1 THEN "QUOTA_EVALUATED" ELSE "PROBING"
      [] pc = "wg.Wait" -> "PROBING"
      [] pc = "updateCheck" ->
            IF cfg.skipHealthcheck THEN "QUOTA_EVALUATED" ELSE "AGGREGATED"
      [] pc = "done" -> "DONE"
      [] OTHER -> "none"

C14_PhasesInOrder ==
    /\ [][Phase' # Phase =>
            /\ <<Phase, Phase'>> \in PhaseOrder
            /\ Phase' \in {"PROBING", "AGGREGATED"} => ~cfg.skipHealthcheck
            /\ (Phase = "COLLECTING" /\ Phase' = "DONE") => fetches' = <<"failed">>]_vars
    /\ [][check' # check => (pc # "done" /\ pc' = "done")]_vars
    /\ (fetches # <<>> /\ fetches[1] = "ok") ~> (pc = "done")

C14_Witness ==
    /\ pc = "done"
    /\ fetches = <<"ok">>
    /\ ~cfg.skipHealthcheck
    /\ Len(matching) = MaxAnns
    /\ Len(results) = 1 + MaxAnns
    /\ check.Status = "CRIT"

\* the phase of the legacy run; its re-check is one step, so RECONCILING is
\* passed within the step from AGGREGATED to FINAL
LegacyPhase ==
    CASE pc \in {"get_announcements", "count_announcements"} -> "COLLECTING"
      [] pc = "imap_unordered" -> "QUOTA_EVALUATED"
      [] pc = "join" -> "PROBING"
      [] pc \in {"sort_results", "re-check"} ->
            IF do_healthcheck THEN "AGGREGATED" ELSE "QUOTA_EVALUATED"
      [] pc = "print" ->
            IF Len(fetches) = 2 THEN "FINAL"
            ELSE IF do_healthcheck THEN "AGGREGATED" ELSE "QUOTA_EVALUATED"
      [] pc = "done" -> "DONE"
      [] OTHER -> "none"

\* the order of the phases in the legacy run (checked under SpecPy)
LegacyPhasesInOrder ==
    /\ [][LegacyPhase' # LegacyPhase =>
            /\ \/ <<LegacyPhase, LegacyPhase'>> \in PhaseOrder
               \/ LegacyPhase = "AGGREGATED" /\ LegacyPhase' = "FINAL"
            /\ LegacyPhase' \in {"PROBING", "AGGREGATED"} => do_healthcheck
            /\ LegacyPhase' = "FINAL" => do_healthcheck /\ results[1].code = 2
            /\ (LegacyPhase = "COLLECTING" /\ LegacyPhase' = "DONE")
                  => fetches' = <<"failed">>]_vars
    /\ [][check' # check => (pc # "done" /\ pc' = "done")]_vars


\* C20: when the external cancellation or deadline signal arrives while probes
\* are in flight, every probe in flight aborts and adds one transport-failure
\* WARN outcome, and the run still joins and gives its verdict.
InFlight == {t \in Goroutines : threads[t].pc = "fetchAnnouncement"}

C20_CancelAbortsProbes ==
    /\ [][\A t \in InFlight :
            (signal # "none" /\ threads'[t].pc # "fetchAnnouncement") =>
               /\ threads'[t].pc = "add_lock"
               /\ threads'[t].r.status = StatusWarn
               /\ threads'[t].r.message[1] = "failed to fetch"]_vars
    /\ [](pc # "killed")
    /\ (signal # "none") ~> (pc = "done")

\* what the Go check does keep: a signal that does not end the process changes
\* nothing, and the run gives its verdict as without it (checked under
\* SpecCancel)
GoDeadlineIsIgnored ==
    /\ (signal = "deadline") ~> (pc = "done")
    /\ [][signal' # signal => (signal' = "deadline" => UNCHANGED <<pc, threads, results, check>>)]_vars


\* C21: the validation accepts exactly the flags with warn >= 0, crit >= 0 and
\* warn >= crit when both are nonzero (with a positive timeout and well-formed
\* headers), and every rejected configuration ends UNKNOWN before anything is
\* fetched or probed.
ValidThresholds(warn, crit) ==
    /\ warn >= 0
    /\ crit >= 0
    /\ (warn # 0 /\ crit # 0) => warn >= crit

WellFormed(hs) == \A i \in DOMAIN hs : \E k \in DOMAIN hs[i] : hs[i][k] = ":"

ValidFlags(flags) ==
    /\ ValidThresholds(flags.warn, flags.crit)
    /\ flags.timeout > 0
    /\ WellFormed(flags.headers)

RejectedIsUnknown ==
    pc = "exit" =>
        /\ check.Status = "UNKNOWN"
        /\ fetches = <<>>
        /\ results = <<>>
        /\ \A t \in DOMAIN threads : threads[t].pc = "idle"

C21_ValidationExact ==
    /\ [][pc = "pflag.Parse" =>
            /\ pc' \in {"findAnnouncements", "exit"}
            /\ pc' = "findAnnouncements" <=> ValidFlags(cfg)]_vars
    /\ []RejectedIsUnknown

\* what the Go check keeps: a rejected configuration ends UNKNOWN with nothing
\* fetched, and the accepted ones are those with a positive timeout,
\* well-formed headers and, negative thresholds read as 0, warn >= crit
\* (checked under SpecFlags)
GoValidation ==
    /\ [][pc = "pflag.Parse" =>
            (pc' = "findAnnouncements" <=>
               /\ cfg.timeout > 0
               /\ WellFormed(cfg.headers)
               /\ (IF cfg.warn < 0 THEN 0 ELSE cfg.warn)
                     >= (IF cfg.crit < 0 THEN 0 ELSE cfg.crit))]_vars
    /\ []RejectedIsUnknown

\* the legacy check accepts the flags with 0 <= crit <= warn, and ends a
\* malformed header with code 2 (checked under SpecFlags on the drawn flags)
LegacyValidation ==
    pc = "pflag.Parse" =>
        /\ Main_init(cfg) = "ok" <=>
              /\ cfg.timeout > 0
              /\ WellFormed(cfg.headers)
              /\ 0 <= cfg.crit /\ cfg.crit <= cfg.warn
        /\ ~WellFormed(cfg.headers) => Main_init(cfg) = "exit 2"


\* C22: the quota outcome carries no announcement, and when it is CRIT no
\* re-check lowers it: it stays in the list as it is and the run ends CRIT,
\* whatever the probes returned and whatever the second fetch gave.
CritQuota(rs) == {i \in DOMAIN rs : rs[i].announcement = None /\ rs[i].code = 2}

C22_CritQuotaStays ==
    /\ [][pc = "count_announcements" =>
            /\ results'[1].announcement = None
            /\ results'[1].code = 2 <=> count_announcements(matching) < cfg.crit
            /\ CritQuota(results') # {} <=> results'[1].code = 2]_vars
    /\ [][\A i \in CritQuota(results) : \E j \in CritQuota(results') :
              results'[j] = results[i]]_vars
    /\ []((pc = "done" /\ CritQuota(results) # {}) => check.retcode = 2)
    /\ []((pc \in {"re-check", "print"} /\ CritQuota(results) # {}) => results[1].code = 2)

C22_Witness ==
    /\ pc = "done"
    /\ check.retcode = 2
    /\ fetches = <<"ok", "ok">>
    /\ CritQuota(results) # {}
    /\ Marked(results) # {}
    /\ Summaries(results) # {}

\* the same for the Go check, where nothing lowers worstStatus (checked under
\* Spec)
GoCritQuotaStays ==
    (Finalizing /\ quotaResult(SelectService(discoveryState, cfg.service),
                               cfg.warn, cfg.crit).status = "CRIT")
        => /\ worstStatus = "CRIT"
           /\ pc = "done" => check.Status = "CRIT"


\* C23: the re-check lowers the final severity by at most one step.  The
\* aggregate after the join is the head of the sorted list; a run that entered
\* the re-check ends WARN or CRIT, and no run ends higher than its aggregate.
C23_AtMostOneStep ==
    /\ [](pc = "re-check" => \A i \in DOMAIN results : results[1].code >= results[i].code)
    /\ [][pc = "re-check" =>
            /\ results'[1].code <= results[1].code
            /\ Len(fetches') = 2 => (results[1].code = 2 /\ results'[1].code \in {1, 2})
            /\ Len(fetches') = 1 => results' = results]_vars
    /\ [][pc = "print" => (check'.retcode = results[1].code /\ results' = results)]_vars
    /\ []((pc = "done" /\ Len(fetches) = 2) => check.retcode \in {1, 2})

C23_Witness ==
    /\ pc = "done"
    /\ fetches = <<"ok", "ok">>
    /\ check.retcode = 1
    /\ CritIndexes(results) = {}
    /\ Cardinality(Marked(results)) = 1
    /\ \E i \in DOMAIN results : results[i].code = 0

\* the Go check has no re-check: its verdict is the aggregate at the join
\* (checked under Spec)
GoFinalIsAggregate ==
    (pc = "done" /\ fetches = <<"ok">>) => check.Status = MaxSeverity(results)


\* C24: the two quota counts agree: for every list of announcements, with
\* empty-string and non-string tokens among them, the count of the Go
\* checkQuota equals the count of the legacy count_announcements.
C24_CountsAgree ==
    /\ pc = "checkQuota returned" => check.out = count_announcements(matching)
    /\ pc = "count_announcements returned" => check.out = quotaCount(matching)

\* where they do agree: on lists whose tokens, when present, are non-empty
\* strings (checked under SpecFn)
PlainTokens(anns) ==
    \A i \in DOMAIN anns :
        anns[i].metadata.has => (anns[i].metadata.type = "string" /\ anns[i].metadata.value # "")

CountsAgreeOnPlainTokens ==
    (pc = "checkQuota returned" /\ PlainTokens(matching))
        => check.out = count_announcements(matching)

\* a list with a repeated token on which the two counts are equal is reached
CountsAgreeReached ==
    /\ pc = "checkQuota returned"
    /\ PlainTokens(matching)
    /\ Len(matching) = 3
    /\ check.out = 2
    /\ \A i \in DOMAIN matching : matching[i].metadata.has

====
